---- MODULE Spec2Model ----
(***************************************************************************)
(* Polaris default-branch setter (src/polaris_branch_setter.py).           *)
(*                                                                         *)
(* One run of main(), or one call of a PolarisAPI method, as a state       *)
(* machine.  Every action runs the code from one I/O operation (an HTTP    *)
(* request, a sleep, the read of the environment) up to the next one, so   *)
(* the trace of I/O operations is exactly the sequence of actions taken.   *)
(* What the remote service answers is the input of a request action.       *)
(***************************************************************************)
EXTENDS Integers, Sequences, FiniteSets, TLC

VARIABLES
    env,              \* os.getenv view of the five POLARIS_* variables
    max_wait_minutes, \* wait_for_scan_completion's budget parameter
    entry,            \* the function that was called from outside
    pc,               \* the next I/O operation of the run
    exit_code,        \* sys.exit status, -1 while running
    trace,            \* I/O operations performed so far, in order
    last,             \* method, endpoint, status and outcome of the last _make_request
    all_succeeded,    \* every request so far got a 2xx answer with the body the caller reads
    remote,           \* what the service held at each endpoint when it was asked
    portfolios,       \* find_project_by_name: local portfolios
    p_idx,            \* find_project_by_name: position in portfolios
    applications,     \* find_project_by_name: local applications
    a_idx,            \* find_project_by_name: position in applications
    project_data,     \* result of find_project_by_name
    attempt,          \* wait_for_scan_completion: loop variable
    scan_completed,   \* result of wait_for_scan_completion
    branches,         \* find_branch_by_name: local branches (last list returned)
    branch,           \* result of the last find_branch_by_name
    branch_data,      \* set_default_branch: fetched representation
    patch_payload,    \* set_default_branch: body of the PATCH
    get_status,       \* set_default_branch: status of the answer to its GET, -1 before
    success,          \* result of set_default_branch
    phases            \* phases of the run passed so far

vars == <<env, max_wait_minutes, entry, pc, exit_code, trace, last, all_succeeded,
          remote, portfolios, p_idx, applications, a_idx, project_data, attempt,
          scan_completed, branches, branch, branch_data, patch_payload, get_status,
          success, phases>>

-----------------------------------------------------------------------------
(* Bounds of the model and constants of the program. *)

MaxApps == 2
MaxProjects == 1
MaxBranches == 2
MaxWaitMinutes == 2

DefaultMaxWaitMinutes == 30
PollIntervalSeconds == 30
FilterLimit == 10
BranchPageSize == 100

\* Python's None, for the optional dictionaries.
None == [none |-> TRUE]
\* os.getenv of a variable that is not set.
Unset == "<unset>"

RequiredVariables ==
    {"POLARIS_SERVER_URL", "POLARIS_ACCESS_TOKEN", "POLARIS_APPLICATION_NAME",
     "POLARIS_PROJECT_NAME", "POLARIS_BRANCH_NAME"}

\* The values of the docstring's examples.
ConfiguredEnv ==
    [v \in RequiredVariables |->
        CASE v = "POLARIS_SERVER_URL" -> "https://poc.polaris.blackduck.com"
          [] v = "POLARIS_ACCESS_TOKEN" -> "token"
          [] v = "POLARIS_APPLICATION_NAME" -> "SRH-hello-java"
          [] v = "POLARIS_PROJECT_NAME" -> "hello-java"
          [] v = "POLARIS_BRANCH_NAME" -> "new"]

\* Every way of leaving each variable unset, empty or set.
Environments ==
    {[v \in RequiredVariables |-> IF v \in U THEN Unset
                                  ELSE IF v \in E THEN "" ELSE ConfiguredEnv[v]] :
        U \in SUBSET RequiredVariables, E \in SUBSET RequiredVariables}

application_name == env["POLARIS_APPLICATION_NAME"]
project_name == env["POLARIS_PROJECT_NAME"]
branch_name == env["POLARIS_BRANCH_NAME"]

\* Python truthiness of an optional string.
Truthy(s) == s # Unset /\ s # ""

\* Variant: the branch name is not among the values tested.
AllSetIgnoringBranch(e) == \A v \in RequiredVariables \ {"POLARIS_BRANCH_NAME"} : Truthy(e[v])

\* main: all([...]) over the five values read from the environment.
AllSet(e) == \A v \in RequiredVariables : Truthy(e[v])

-----------------------------------------------------------------------------
(* _make_request *)

\* requests.request raised (no response: connection, timeout, too many redirects).
NoResponse == 0

\* Final statuses of a request: no response, 2xx, 3xx that requests does not follow
\* as redirects, 4xx, 5xx.
Statuses == {NoResponse, 200, 204, 300, 304, 404, 500}

\* Statuses that can come with a JSON document.
BodyStatuses == {200, 300}

\* response.raise_for_status() raises for 4xx and 5xx; a RequestException raised by
\* requests.request is re-raised.
Raises(status) == status = NoResponse \/ (status >= 400 /\ status < 600)

\* The caller's view of a GET: the parsed body, or failure (an exception reaches
\* the caller's except clause, from _make_request or from response.json()).
Failed(resp) == Raises(resp.status) \/ ~resp.parsed

\* A 2xx answer carrying the document the caller reads.
Succeeded(resp) == resp.status >= 200 /\ resp.status <= 299 /\ resp.parsed

\* Answers to a GET: a status with a document drawn from docs, or any status with
\* a body response.json() cannot parse (empty, HTML, ...), held as nobody.
GetResponses(docs, nobody) ==
    {[status |-> s, parsed |-> TRUE, body |-> b] : s \in BodyStatuses, b \in docs}
    \cup {[status |-> s, parsed |-> FALSE, body |-> nobody] : s \in Statuses}

Request(method, endpoint) == [op |-> method, endpoint |-> endpoint]

Last(method, endpoint, status) ==
    [method |-> method, endpoint |-> endpoint, status |-> status,
     raised |-> Raises(status)]

PortfoliosEndpoint == "/api/portfolios"
ApplicationsEndpoint(p) == "/api/portfolios/" \o p \o "/applications"
ProjectsEndpoint(p, a) == ApplicationsEndpoint(p) \o "/" \o a \o "/projects"
BranchesEndpoint(p, a, j) == ProjectsEndpoint(p, a) \o "/" \o j \o "/branches"
BranchEndpoint(p, a, j, b) == BranchesEndpoint(p, a, j) \o "/" \o b

-----------------------------------------------------------------------------
(* The documents of the remote service. *)

SeqsUpTo(S, n) == UNION {[1..k -> S] : k \in 0..n}

Min(a, b) == IF a < b THEN a ELSE b

\* The first n items of a list: the service's answer under _limit = n.
Take(s, n) == SubSeq(s, 1, Min(n, Len(s)))

\* The service's answer to _filter=name=="<name>": the items of that exact name.
Filter(items, name) == SelectSeq(items, LAMBDA x : x.name = name)

PortfolioIds == <<"p1", "p2">>

PortfolioLists(n) ==
    {[i \in 1..k |-> [id |-> PortfolioIds[i], name |-> "portfolio"]] :
        k \in 0..Min(n, Len(PortfolioIds))}

AppNames == {ConfiguredEnv["POLARIS_APPLICATION_NAME"], "other-app"}

\* The applications a portfolio may hold: any names, identifiers by position.
AppLists(p, n) ==
    {[i \in 1..Len(ns) |-> [id |-> p \o "-a" \o ToString(i), name |-> ns[i]]] :
        ns \in SeqsUpTo(AppNames, n)}

\* A project of the requested name may come without identifier; main() tests for it.
ProjectKinds ==
    {[name |-> ConfiguredEnv["POLARIS_PROJECT_NAME"], blank |-> FALSE],
     [name |-> ConfiguredEnv["POLARIS_PROJECT_NAME"], blank |-> TRUE],
     [name |-> "other-project", blank |-> FALSE]}

ProjectLists(a, n) ==
    {[i \in 1..Len(ks) |->
        [id |-> IF ks[i].blank THEN "" ELSE a \o "-j" \o ToString(i),
         name |-> ks[i].name]] :
        ks \in SeqsUpTo(ProjectKinds, n)}

BranchNames == {"new", "New", "main"}

BranchKinds == [name : BranchNames, flag : {"absent", "true", "false"}]

BranchItem(i, k) ==
    IF k.flag = "absent"
    THEN [id |-> "b" \o ToString(i), name |-> k.name]
    ELSE [id |-> "b" \o ToString(i), name |-> k.name, isDefault |-> (k.flag = "true")]

BranchLists(n) ==
    {[i \in 1..Len(ks) |-> BranchItem(i, ks[i])] : ks \in SeqsUpTo(BranchKinds, n)}

\* Fields a branch representation may carry; "extra" stands for any field that
\* set_default_branch does not name.
BranchFields ==
    {"id", "_links", "name", "description", "source", "isDefault",
     "autoDeleteSetting", "autoDeleteSettingsCustomized",
     "branchRetentionPeriodSetting", "labelIds", "extra"}

FetchedValue(f) ==
    CASE f = "id" -> "b1"
      [] f = "_links" -> <<"self">>
      [] f = "name" -> "new"
      [] f = "description" -> "release line"
      [] f = "source" -> "USER"
      [] f = "isDefault" -> FALSE
      [] f = "autoDeleteSetting" -> TRUE
      [] f = "autoDeleteSettingsCustomized" -> TRUE
      [] f = "branchRetentionPeriodSetting" -> 30
      [] f = "labelIds" -> <<"label-1">>
      [] f = "extra" -> "x"

\* Every representation over a subset of the fields.
BranchReps ==
    {[f \in D |-> IF f = "isDefault" THEN d ELSE FetchedValue(f)] :
        D \in SUBSET BranchFields, d \in BOOLEAN}

\* The representations main()'s run is checked with: all fields, and the bare one.
MainBranchReps ==
    {[f \in D |-> FetchedValue(f)] :
        D \in {BranchFields, BranchFields \ {"extra"}, {"id", "name", "isDefault"}}}

IsObserved(url) == \E r \in remote : r.endpoint = url

Stored(url) == (CHOOSE r \in remote : r.endpoint = url).items

\* The service's content as far as a body was read from it.
Observe(url, resp) ==
    IF Failed(resp) THEN remote
    ELSE remote \cup {[endpoint |-> url, items |-> resp.body]}

-----------------------------------------------------------------------------
(* PolarisAPI: the computations between the requests. *)

\* Variant: the two parent identifiers stored in each other's place.
AnnotateSwapped(project, portfolio_id, application_id) ==
    [id |-> project.id, name |-> project.name,
     portfolioId |-> application_id, applicationId |-> portfolio_id]

\* find_project_by_name: project['portfolioId'] = ...; project['applicationId'] = ...
Annotate(project, portfolio_id, application_id) ==
    [id |-> project.id, name |-> project.name,
     portfolioId |-> portfolio_id, applicationId |-> application_id]

\* Lower case of the branch names of the model.
Lower(s) == IF s = "New" THEN "new" ELSE s

\* Variant: the comparison ignores letter case.
NameEqualsIgnoringCase(a, b) == Lower(a) = Lower(b)

\* find_branch_by_name: branch['name'] == branch_name
NameEquals(a, b) == a = b

\* find_branch_by_name: the first branch of the list with the name, or None.
FindBranchByName(list, name) ==
    LET hits == {i \in 1..Len(list) : NameEquals(list[i].name, name)}
    IN  IF hits = {} THEN None
        ELSE list[CHOOSE i \in hits : \A j \in hits : i <= j]

\* get_project_branches: the items of the answer, [] when the request failed.
GetProjectBranches(resp) ==
    IF Failed(resp) THEN <<>> ELSE Take(resp.body, BranchPageSize)

\* Variant: the flag is not consulted.
IsDefaultNever(b) == FALSE

\* main: branch.get('isDefault', False)
IsDefault(b) == "isDefault" \in DOMAIN b /\ b["isDefault"]

\* dict.get(key, default)
Get(d, key, default) == IF key \in DOMAIN d THEN d[key] ELSE default

\* set_default_branch: the PATCH payload built from the fetched representation.
PatchPayload(data, name) ==
    LET listed ==
            [name |-> Get(data, "name", name),
             description |-> Get(data, "description", ""),
             source |-> Get(data, "source", "CI"),
             isDefault |-> TRUE,
             autoDeleteSetting |-> Get(data, "autoDeleteSetting", FALSE),
             autoDeleteSettingsCustomized |->
                 Get(data, "autoDeleteSettingsCustomized", FALSE),
             branchRetentionPeriodSetting |->
                 Get(data, "branchRetentionPeriodSetting", 0)]
    IN  IF "labelIds" \in DOMAIN data
        THEN listed @@ [labelIds |-> data["labelIds"]]
        ELSE listed

\* Variant: the identifiers are not tested.
HasIdentifiersUnchecked(pd) == TRUE

\* all([portfolio_id, application_id, project_id])
HasIdentifiers(pd) ==
    Truthy(pd.portfolioId) /\ Truthy(pd.applicationId) /\ Truthy(pd.id)

\* Variant: one attempt more than the budget gives.
MaxAttemptsOneMore(minutes) == minutes * 2 + 1

\* wait_for_scan_completion: max_attempts = max_wait_minutes * 2
MaxAttempts(minutes) == minutes * 2

\* Variant: a sleep follows the last attempt too.
ShouldSleepAlways(i, max_attempts) == i < max_attempts

\* wait_for_scan_completion: if attempt < max_attempts - 1
ShouldSleep(i, max_attempts) == i < max_attempts - 1

\* Variant: the test of the lookup's result is inverted.
PollSawBranchInverted(b) == b = None

\* wait_for_scan_completion: if branch
PollSawBranch(b) == b # None

\* main: sys.exit(0) if success else sys.exit(1)
ExitStatus(ok) == IF ok THEN 0 ELSE 1

-----------------------------------------------------------------------------
(* Control: what the code does from the return of a call to the next I/O. *)

Ctl ==
    [pc |-> pc, exit_code |-> exit_code, phases |-> phases,
     scan_completed |-> scan_completed, success |-> success, attempt |-> attempt]

SetCtl(c) ==
    /\ pc' = c.pc
    /\ exit_code' = c.exit_code
    /\ phases' = c.phases
    /\ scan_completed' = c.scan_completed
    /\ success' = c.success
    /\ attempt' = c.attempt

\* The entry call returned to its caller.
Returned(c) == [c EXCEPT !.pc = "returned"]

SysExit(c, code) ==
    [c EXCEPT !.pc = "exit", !.exit_code = code, !.phases = Append(@, "EXIT")]

Phase(c, ph) == [c EXCEPT !.phases = Append(@, ph)]

PyBool(b) == IF b THEN "True" ELSE "False"

\* main, after set_default_branch returned.
MainAfterSetDefault(c, ok) ==
    SysExit(IF ok THEN Phase(c, "DEFAULT_SET") ELSE c, ExitStatus(ok))

\* Variant: a failed update is tried again.
AfterSetDefaultRetry(c, ok) ==
    IF ~ok THEN [c EXCEPT !.pc = "branch_get"]
    ELSE IF entry = "set_default_branch"
         THEN Returned([c EXCEPT !.success = "True"])
         ELSE MainAfterSetDefault([c EXCEPT !.success = "True"], TRUE)

AfterSetDefault(c, ok) ==
    LET c1 == [c EXCEPT !.success = PyBool(ok)]
    IN  IF entry = "set_default_branch" THEN Returned(c1)
        ELSE MainAfterSetDefault(c1, ok)

\* Variant: main decides on the branch that the poller's last lookup returned.
MainAfterLookupStale(c, b) ==
    IF branch = None THEN SysExit(c, 1)
    ELSE IF IsDefault(branch)
         THEN SysExit(Phase(Phase(c, "BRANCH_RESOLVED"), "ALREADY_DEFAULT"), 0)
         ELSE [Phase(c, "BRANCH_RESOLVED") EXCEPT !.pc = "branch_get"]

\* main, after the lookup that follows the poll.
MainAfterLookup(c, b) ==
    IF b = None THEN SysExit(c, 1)
    ELSE IF IsDefault(b)
         THEN SysExit(Phase(Phase(c, "BRANCH_RESOLVED"), "ALREADY_DEFAULT"), 0)
         ELSE [Phase(c, "BRANCH_RESOLVED") EXCEPT !.pc = "branch_get"]

AfterLookup(c, b) ==
    IF entry = "find_branch_by_name" THEN Returned(c) ELSE MainAfterLookup(c, b)

\* main, after wait_for_scan_completion returned.
MainAfterWait(c, done) ==
    IF ~done THEN SysExit(c, 1)
    ELSE [Phase(c, "SCAN_AWAITED") EXCEPT !.pc = "lookup"]

AfterWait(c, done) ==
    LET c1 == [c EXCEPT !.scan_completed = PyBool(done)]
    IN  IF entry = "wait_for_scan_completion" THEN Returned(c1)
        ELSE MainAfterWait(c1, done)

\* Variant: the iteration is repeated without being counted.
NextAttemptNotCounted(c) == [c EXCEPT !.pc = "poll"]

\* wait_for_scan_completion: for attempt in range(max_attempts), at the end of
\* one iteration; return False after the last.
NextAttempt(c) ==
    IF c.attempt + 1 < MaxAttempts(max_wait_minutes)
    THEN [c EXCEPT !.pc = "poll", !.attempt = @ + 1]
    ELSE AfterWait(c, FALSE)

\* wait_for_scan_completion, after the lookup of one attempt.
AfterPollLookup(c, b) ==
    IF PollSawBranch(b) THEN AfterWait(c, TRUE)
    ELSE IF ShouldSleep(c.attempt, MaxAttempts(max_wait_minutes))
         THEN [c EXCEPT !.pc = "sleep"]
         ELSE NextAttempt(c)

\* wait_for_scan_completion, up to its first lookup.
WaitForScanCompletion(c, pd) ==
    IF ~HasIdentifiers(pd) THEN AfterWait(c, FALSE)
    ELSE IF MaxAttempts(max_wait_minutes) <= 0 THEN AfterWait(c, FALSE)
         ELSE [c EXCEPT !.pc = "poll", !.attempt = 0]

\* main, after find_project_by_name returned.
MainAfterFindProject(c, pd) ==
    IF pd = None THEN SysExit(c, 1)
    ELSE IF ~HasIdentifiers(pd) THEN SysExit(c, 1)
         ELSE WaitForScanCompletion(Phase(c, "PROJECT_RESOLVED"), pd)

AfterFindProject(c, pd) ==
    IF entry = "find_project_by_name" THEN Returned(c)
    ELSE MainAfterFindProject(c, pd)

-----------------------------------------------------------------------------
(* find_project_by_name: the position of the nested loops. *)

Pos(ps, p, apps, a) ==
    [portfolios |-> ps, p_idx |-> p, applications |-> apps, a_idx |-> a,
     done |-> FALSE, result |-> None,
     pc |-> IF a = 0 THEN "applications" ELSE "projects"]

\* return: the locals are gone.
Done(result) ==
    [portfolios |-> <<>>, p_idx |-> 0, applications |-> <<>>, a_idx |-> 0,
     done |-> TRUE, result |-> result, pc |-> "returned"]

\* for portfolio in portfolios, from position p on; return None after the last.
NextPortfolio(ps, p) ==
    IF p > Len(ps) THEN Done(None) ELSE Pos(ps, p, <<>>, 0)

\* Variant: the application at position a is passed over.
NextApplicationOffByOne(ps, p, apps, a) ==
    IF a + 1 > Len(apps) THEN NextPortfolio(ps, p + 1) ELSE Pos(ps, p, apps, a + 1)

\* for application in applications, from position a on; then the next portfolio.
NextApplication(ps, p, apps, a) ==
    IF a > Len(apps) THEN NextPortfolio(ps, p + 1) ELSE Pos(ps, p, apps, a)

SetSearch(s) ==
    /\ portfolios' = s.portfolios
    /\ p_idx' = s.p_idx
    /\ applications' = s.applications
    /\ a_idx' = s.a_idx
    /\ project_data' = s.result
    /\ SetCtl(IF s.done THEN AfterFindProject(Ctl, s.result)
              ELSE [Ctl EXCEPT !.pc = s.pc])

\* _make_request as seen in the trace.
Io(method, endpoint, status, ok) ==
    /\ trace' = Append(trace, Request(method, endpoint))
    /\ last' = Last(method, endpoint, status)
    /\ all_succeeded' = (all_succeeded /\ ok)

-----------------------------------------------------------------------------
(* Actions. *)

\* main: read and validate the environment, construct the client.
ReadConfig ==
    /\ pc = "main"
    /\ SetCtl(IF AllSet(env)
              THEN [Phase(Ctl, "CONFIG_VALIDATED") EXCEPT !.pc = "portfolios"]
              ELSE SysExit(Ctl, 1))
    /\ UNCHANGED <<env, max_wait_minutes, entry, trace, last, all_succeeded, remote,
                   portfolios, p_idx, applications, a_idx, project_data, branches,
                   branch, branch_data, patch_payload,
                   get_status>>

\* find_project_by_name: GET /api/portfolios; at most n portfolios are held.
GetPortfolios(n) ==
    /\ pc = "portfolios"
    /\ \E resp \in GetResponses(PortfolioLists(n), <<>>) :
        /\ Io("GET", PortfoliosEndpoint, resp.status, Succeeded(resp))
        /\ remote' = Observe(PortfoliosEndpoint, resp)
        /\ SetSearch(IF Failed(resp) THEN Done(None)
                     ELSE NextPortfolio(resp.body, 1))
    /\ UNCHANGED <<env, max_wait_minutes, entry, branches, branch, branch_data,
                   patch_payload,
                   get_status>>

\* find_project_by_name: GET the applications of the current portfolio.
GetApplications(n) ==
    /\ pc = "applications"
    /\ LET portfolio_id == portfolios[p_idx].id
           url == ApplicationsEndpoint(portfolio_id)
       IN  \E resp \in GetResponses(AppLists(portfolio_id, n), <<>>) :
            /\ Io("GET", url, resp.status, Succeeded(resp))
            /\ remote' = Observe(url, resp)
            /\ SetSearch(
                 IF Failed(resp) THEN NextPortfolio(portfolios, p_idx + 1)
                 ELSE NextApplication(
                        portfolios, p_idx,
                        Take(Filter(resp.body, application_name), FilterLimit), 1))
    /\ UNCHANGED <<env, max_wait_minutes, entry, branches, branch, branch_data,
                   patch_payload,
                   get_status>>

\* find_project_by_name: GET the projects of the current application.
GetProjects(n) ==
    /\ pc = "projects"
    /\ LET portfolio_id == portfolios[p_idx].id
           application_id == applications[a_idx].id
           url == ProjectsEndpoint(portfolio_id, application_id)
       IN  \E resp \in GetResponses(ProjectLists(application_id, n), <<>>) :
            LET projects ==
                    IF Failed(resp) THEN <<>>
                    ELSE Take(Filter(resp.body, project_name), FilterLimit)
            IN  /\ Io("GET", url, resp.status, Succeeded(resp))
                /\ remote' = Observe(url, resp)
                /\ SetSearch(
                     IF Len(projects) = 0
                     THEN NextApplication(portfolios, p_idx, applications, a_idx + 1)
                     ELSE Done(Annotate(projects[1], portfolio_id, application_id)))
    /\ UNCHANGED <<env, max_wait_minutes, entry, branches, branch, branch_data,
                   patch_payload,
                   get_status>>

ProjectBranchesEndpoint ==
    BranchesEndpoint(project_data.portfolioId, project_data.applicationId,
                     project_data.id)

\* wait_for_scan_completion: the find_branch_by_name of one attempt.
PollLookup(n) ==
    /\ pc = "poll"
    /\ \E resp \in GetResponses(BranchLists(n), <<>>) :
        LET list == GetProjectBranches(resp)
            found == FindBranchByName(list, branch_name)
        IN  /\ Io("GET", ProjectBranchesEndpoint, resp.status, Succeeded(resp))
            /\ branches' = list
            /\ branch' = found
            /\ SetCtl(AfterPollLookup(Ctl, found))
    /\ UNCHANGED <<env, max_wait_minutes, entry, remote, portfolios, p_idx,
                   applications, a_idx, project_data, branch_data, patch_payload,
                   get_status>>

\* wait_for_scan_completion: time.sleep(30), then the next attempt.
Sleep ==
    /\ pc = "sleep"
    /\ trace' = Append(trace, [op |-> "sleep", seconds |-> PollIntervalSeconds])
    /\ SetCtl(NextAttempt(Ctl))
    /\ UNCHANGED <<env, max_wait_minutes, entry, last, all_succeeded, remote,
                   portfolios, p_idx, applications, a_idx, project_data, branches,
                   branch, branch_data, patch_payload,
                   get_status>>

\* find_branch_by_name, called by main after the poll (or from outside).
Lookup(n) ==
    /\ pc = "lookup"
    /\ \E resp \in GetResponses(BranchLists(n), <<>>) :
        LET list == GetProjectBranches(resp)
            found == FindBranchByName(list, branch_name)
        IN  /\ Io("GET", ProjectBranchesEndpoint, resp.status, Succeeded(resp))
            /\ branches' = list
            /\ branch' = found
            /\ SetCtl(AfterLookup(Ctl, found))
    /\ UNCHANGED <<env, max_wait_minutes, entry, remote, portfolios, p_idx,
                   applications, a_idx, project_data, branch_data, patch_payload,
                   get_status>>

\* Variant: the branch is addressed by its name.
TargetBranchEndpointByName ==
    BranchEndpoint(project_data.portfolioId, project_data.applicationId,
                   project_data.id, branch.name)

TargetBranchEndpoint ==
    BranchEndpoint(project_data.portfolioId, project_data.applicationId,
                   project_data.id, branch.id)

\* set_default_branch: GET the branch, build the payload.
BranchGet(reps) ==
    /\ pc = "branch_get"
    /\ \E resp \in GetResponses(reps, [f \in {} |-> FALSE]) :
        /\ Io("GET", TargetBranchEndpoint, resp.status, Succeeded(resp))
        /\ get_status' = resp.status
        /\ IF Failed(resp)
           THEN /\ branch_data' = None
                /\ patch_payload' = None
                /\ SetCtl(AfterSetDefault(Ctl, FALSE))
           ELSE /\ branch_data' = resp.body
                /\ patch_payload' = PatchPayload(resp.body, branch_name)
                /\ SetCtl([Ctl EXCEPT !.pc = "patch"])
    /\ UNCHANGED <<env, max_wait_minutes, entry, remote, portfolios, p_idx,
                   applications, a_idx, project_data, branches, branch>>

\* set_default_branch: PATCH the branch with the payload.
Patch ==
    /\ pc = "patch"
    /\ \E status \in Statuses :
        /\ Io("PATCH", TargetBranchEndpoint, status, status >= 200 /\ status <= 299)
        /\ SetCtl(AfterSetDefault(Ctl, ~Raises(status)))
    /\ UNCHANGED <<env, max_wait_minutes, entry, remote, portfolios, p_idx,
                   applications, a_idx, project_data, branches, branch, branch_data,
                   patch_payload,
                   get_status>>

-----------------------------------------------------------------------------
(* Specifications. *)

\* A project as find_project_by_name returns it, and a branch of it.
ResolvedProject ==
    Annotate([id |-> "p1-a1-j1", name |-> ConfiguredEnv["POLARIS_PROJECT_NAME"]],
             "p1", "p1-a1")

ListedBranch == [id |-> "b1", name |-> ConfiguredEnv["POLARIS_BRANCH_NAME"]]

Start(fn, at, envs, budgets, pd, b) ==
    /\ entry = fn
    /\ pc = at
    /\ env \in envs
    /\ max_wait_minutes \in budgets
    /\ exit_code = -1
    /\ trace = <<>>
    /\ last = None
    /\ all_succeeded = TRUE
    /\ remote = {}
    /\ portfolios = <<>>
    /\ p_idx = 0
    /\ applications = <<>>
    /\ a_idx = 0
    /\ project_data = pd
    /\ attempt = 0
    /\ scan_completed = "unset"
    /\ branches = <<>>
    /\ branch = b
    /\ branch_data = None
    /\ patch_payload = None
    /\ get_status = -1
    /\ success = "unset"
    /\ phases = IF fn = "main" THEN <<"START">> ELSE <<>>

\* One run of main(): the poller has its default budget.
Init == Start("main", "main", Environments, {DefaultMaxWaitMinutes}, None, None)

\* The service holds one portfolio, one application, one project and one branch at
\* most in a run of main(); the method specifications below widen each.
Next ==
    \/ ReadConfig
    \/ GetPortfolios(1)
    \/ GetApplications(1)
    \/ GetProjects(1)
    \/ PollLookup(1)
    \/ Sleep
    \/ Lookup(1)
    \/ BranchGet(MainBranchReps)
    \/ Patch

Spec == Init /\ [][Next]_vars

\* main() with the poller's budget as a parameter.
InitWait ==
    Start("main", "main", {ConfiguredEnv},
          (0..MaxWaitMinutes) \cup {DefaultMaxWaitMinutes}, None, None)

SpecWait == InitWait /\ [][Next]_vars

\* find_project_by_name("SRH-hello-java", "hello-java") against any hierarchy.
InitFind ==
    Start("find_project_by_name", "portfolios", {ConfiguredEnv},
          {DefaultMaxWaitMinutes}, None, None)

NextFind ==
    \/ GetPortfolios(Len(PortfolioIds))
    \/ GetApplications(MaxApps)
    \/ GetProjects(MaxProjects)

SpecFind == InitFind /\ [][NextFind]_vars

\* find_branch_by_name(..., "new") against any branch list.
InitBranch ==
    Start("find_branch_by_name", "lookup", {ConfiguredEnv},
          {DefaultMaxWaitMinutes}, ResolvedProject, None)

NextBranch == Lookup(MaxBranches)

SpecBranch == InitBranch /\ [][NextBranch]_vars

\* set_default_branch(..., "b1", "new") against any branch representation.
InitSetDefault ==
    Start("set_default_branch", "branch_get", {ConfiguredEnv},
          {DefaultMaxWaitMinutes}, ResolvedProject, ListedBranch)

NextSetDefault ==
    \/ BranchGet(BranchReps)
    \/ Patch

SpecSetDefault == InitSetDefault /\ [][NextSetDefault]_vars

\* main() with any configuration and any budget of the poller, every request
\* returning and every sleep ending: a step that can be taken is taken.
InitLive ==
    Start("main", "main", Environments,
          (0..MaxWaitMinutes) \cup {DefaultMaxWaitMinutes}, None, None)

SpecLive == InitLive /\ [][Next]_vars /\ WF_vars(Next)

-----------------------------------------------------------------------------
(* Properties. *)

\* The requests of the trace, without the sleeps.
Requests == SelectSeq(trace, LAMBDA e : e.op # "sleep")

GetRequest(url) == [op |-> "GET", endpoint |-> url]

ProjectUrl == "/api/portfolios/p1/applications/p1-a1/projects/p1-a1-j1"

\* The three requests that resolve the one project of the one application of the
\* one portfolio.
ResolutionRequests ==
    <<GetRequest("/api/portfolios"),
      GetRequest("/api/portfolios/p1/applications"),
      GetRequest("/api/portfolios/p1/applications/p1-a1/projects")>>

BranchListRequest == GetRequest(ProjectUrl \o "/branches")

Listed(list, name) == \E i \in 1..Len(list) : list[i].name = name

MarkedDefault(b) == "isDefault" \in DOMAIN b /\ b["isDefault"] = TRUE

\* The case of the end-to-end claim, seen at the exit: complete configuration, every
\* request answered 2xx with its document, the project resolved with its
\* identifiers, the poll over at its first attempt, the branch found and not default.
EndToEndCase ==
    /\ pc = "exit"
    /\ env = ConfiguredEnv
    /\ all_succeeded
    /\ project_data # None
    /\ project_data.id # ""
    /\ scan_completed = "True"
    /\ attempt = 0
    /\ branch # None
    /\ ~MarkedDefault(branch)

\* The poll ends at its first attempt exactly when that attempt lists the branch.
FirstPollDecides ==
    (/\ Len(trace) = 4
     /\ trace[4] = BranchListRequest
     /\ entry = "main")
    => (Listed(branches, "new") <=> pc = "lookup")

\* C1 as stated: with the configuration complete, the project and the branch
\* present (branch not default) and every request succeeding, main() issues exactly
\* GET portfolios, GET applications, GET projects, one branch-list GET, the branch
\* GET and the PATCH, and exits 0.
C1_AsStated ==
    EndToEndCase =>
        /\ exit_code = 0
        /\ trace = ResolutionRequests \o
                   <<BranchListRequest,
                     GetRequest(ProjectUrl \o "/branches/" \o branch.id),
                     [op |-> "PATCH", endpoint |-> ProjectUrl \o "/branches/" \o branch.id]>>

\* C1 amended: in that case main() issues exactly GET portfolios, GET applications,
\* GET projects, the poller's branch-list GET, a second branch-list GET for the
\* lookup that follows the poll, the branch GET and the PATCH, and exits 0; the
\* poll ends at its first attempt exactly when that attempt lists the branch.
C1_EndToEnd ==
    /\ FirstPollDecides
    /\ EndToEndCase =>
        /\ exit_code = 0
        /\ trace = ResolutionRequests \o
                   <<BranchListRequest,
                     BranchListRequest,
                     GetRequest(ProjectUrl \o "/branches/" \o branch.id),
                     [op |-> "PATCH", endpoint |-> ProjectUrl \o "/branches/" \o branch.id]>>

C1_Witness == EndToEndCase /\ Len(trace) = 7 /\ exit_code = 0

\* C2: when the lookup that follows the poll returns the branch with isDefault
\* true, the run exits 0 and its trace holds no PATCH and no GET of the single
\* branch: only the resolution requests and branch-list GETs.
C2_AlreadyDefault ==
    (/\ entry = "main"
     /\ scan_completed = "True"
     /\ pc # "lookup"
     /\ branch # None
     /\ MarkedDefault(branch))
    => /\ pc = "exit"
       /\ exit_code = 0
       /\ \A i \in 1..Len(Requests) :
            \/ Requests[i] = BranchListRequest
            \/ (i <= 3 /\ Requests[i] = ResolutionRequests[i])

C2_Witness ==
    /\ pc = "exit"
    /\ scan_completed = "True"
    /\ branch # None
    /\ MarkedDefault(branch)
    /\ attempt > 0

\* The poll of a run whose n lookups all missed the branch: lookups alternate with
\* sleeps of 30 seconds, none after the last.
MissedPoll(n) ==
    [i \in 1..(IF n = 0 THEN 0 ELSE 2 * n - 1) |->
        IF i % 2 = 1 THEN BranchListRequest ELSE [op |-> "sleep", seconds |-> 30]]

\* C3: when no lookup of wait_for_scan_completion finds the branch, the poller makes
\* exactly max_wait_minutes * 2 lookups with one 30-second sleep between consecutive
\* lookups and none after the last, returns False, and main() exits 1 without the
\* following lookup, the branch GET or the PATCH; while it polls, the lookups and
\* sleeps made so far alternate in that way.
C3_PollTimeout ==
    /\ scan_completed = "False" =>
        /\ pc = "exit"
        /\ exit_code = 1
        /\ trace = ResolutionRequests \o MissedPoll(max_wait_minutes * 2)
    /\ pc = "sleep" =>
        /\ trace = ResolutionRequests \o MissedPoll(attempt + 1)
        /\ attempt + 1 < max_wait_minutes * 2
    /\ pc = "poll" =>
        /\ trace = ResolutionRequests \o MissedPoll(attempt) \o
                   (IF attempt = 0 THEN <<>> ELSE <<[op |-> "sleep", seconds |-> 30]>>)
        /\ attempt < max_wait_minutes * 2

C3_Witness ==
    /\ scan_completed = "False"
    /\ pc = "exit"
    /\ max_wait_minutes = 2
    /\ Len(trace) = 10

\* C4: when one of the five variables is unset or empty, the run issues no request
\* at any point, and its exit is with code 1.
C4_MissingConfig ==
    (\E v \in RequiredVariables : env[v] = Unset \/ env[v] = "")
    => /\ trace = <<>>
       /\ last = None
       /\ pc \in {"main", "exit"}
       /\ pc = "exit" => exit_code = 1

C4_Witness ==
    /\ pc = "exit"
    /\ exit_code = 1
    /\ env["POLARIS_BRANCH_NAME"] = ""
    /\ \A v \in RequiredVariables \ {"POLARIS_BRANCH_NAME"} : env[v] = ConfiguredEnv[v]

\* C5 as stated: the PATCH body holds every fetched field other than the
\* identifier and the links with its value unchanged, has isDefault true, and holds
\* no field that the fetched representation lacks.
C5_RoundTrip ==
    (last # None /\ last.method = "PATCH") =>
        /\ \A f \in DOMAIN branch_data \ {"id", "_links", "isDefault"} :
            /\ f \in DOMAIN patch_payload
            /\ patch_payload[f] = branch_data[f]
        /\ patch_payload["isDefault"] = TRUE
        /\ \A f \in DOMAIN patch_payload \ {"isDefault"} : f \in DOMAIN branch_data

CorePhases ==
    <<"START", "CONFIG_VALIDATED", "PROJECT_RESOLVED", "SCAN_AWAITED",
      "BRANCH_RESOLVED">>

Passed(ph) == \E i \in 1..Len(phases) : phases[i] = ph

\* The requests of the steps up to project resolution, and up to the branch lookup.
OnlyResolution ==
    \A i \in 1..Len(Requests) : i <= 3 /\ Requests[i] = ResolutionRequests[i]

OnlyResolutionAndLists ==
    \A i \in 1..Len(Requests) :
        \/ i <= 3 /\ Requests[i] = ResolutionRequests[i]
        \/ i > 3 /\ Requests[i] = BranchListRequest

ExitByResults ==
    /\ pc = "exit" =>
        /\ exit_code \in {0, 1}
        /\ exit_code = 0 <=>
            \/ scan_completed = "True" /\ branch # None /\ MarkedDefault(branch)
            \/ success = "True"
    /\ pc # "exit" => exit_code = -1
    /\ success = "False" => pc = "exit" /\ exit_code = 1

\* C7 as stated: a run exits with code 0 exactly when the lookup that follows the
\* poll returned the branch with isDefault true, or set_default_branch returned
\* True, which it does only when its GET and its PATCH were both answered with a
\* status in 200..299; every other exit is with code 1.
C7_ExitStatus ==
    /\ ExitByResults
    /\ success = "True" =>
        /\ get_status >= 200 /\ get_status <= 299
        /\ last.method = "PATCH"
        /\ last.status >= 200 /\ last.status <= 299

\* C8 as stated: whatever the status outside 200..299 of the answer, _make_request
\* raises to its caller.
C8_NonSuccessRaises ==
    (last # None /\ (last.status < 200 \/ last.status > 299)) => last.raised

\* C9: with every request succeeding, find_project_by_name returns a project that
\* the service holds under the requested project name in an application of the
\* requested name, with portfolioId and applicationId the identifiers of its
\* portfolio and application; it returns None only when every portfolio and every
\* application of the requested name was read and none holds such a project.
C9_FindProject ==
    (pc = "returned" /\ all_succeeded) =>
        LET ps == Stored("/api/portfolios")
            AppsUrl(i) == "/api/portfolios/" \o ps[i].id \o "/applications"
            Apps(i) == Stored(AppsUrl(i))
            ProjectsUrl(i, j) == AppsUrl(i) \o "/" \o Apps(i)[j].id \o "/projects"
            Projects(i, j) == Stored(ProjectsUrl(i, j))
            Wanted(i, j) == Apps(i)[j].name = "SRH-hello-java"
            Hit(i, j, k) ==
                /\ IsObserved(AppsUrl(i))
                /\ j \in 1..Len(Apps(i))
                /\ Wanted(i, j)
                /\ IsObserved(ProjectsUrl(i, j))
                /\ k \in 1..Len(Projects(i, j))
                /\ Projects(i, j)[k].name = "hello-java"
        IN  /\ IsObserved("/api/portfolios")
            /\ project_data # None =>
                \E i \in 1..Len(ps) : \E j \in 1..MaxApps + 1 : \E k \in 1..MaxProjects + 1 :
                    /\ Hit(i, j, k)
                    /\ project_data =
                        [id |-> Projects(i, j)[k].id, name |-> "hello-java",
                         portfolioId |-> ps[i].id, applicationId |-> Apps(i)[j].id]
            /\ project_data = None =>
                \A i \in 1..Len(ps) :
                    /\ IsObserved(AppsUrl(i))
                    /\ \A j \in 1..Len(Apps(i)) :
                        Wanted(i, j) =>
                            /\ IsObserved(ProjectsUrl(i, j))
                            /\ \A k \in 1..Len(Projects(i, j)) :
                                Projects(i, j)[k].name # "hello-java"

C9_Witness ==
    /\ pc = "returned"
    /\ all_succeeded
    /\ project_data # None
    /\ project_data.portfolioId = "p2"
    /\ project_data.applicationId = "p2-a2"
    /\ Len(trace) >= 5

\* C10: find_branch_by_name returns the first branch of the list whose name is
\* exactly the requested one, and None when no listed name is exactly that one,
\* also when a listed name differs from it in letter case only.
C10_FindBranch ==
    pc = "returned" =>
        /\ branch # None =>
            \E i \in 1..Len(branches) :
                /\ branches[i] = branch
                /\ branches[i].name = "new"
                /\ \A j \in 1..(i - 1) : branches[j].name # "new"
        /\ branch = None <=> \A i \in 1..Len(branches) : branches[i].name # "new"

C10_Witness ==
    /\ pc = "returned"
    /\ branch = None
    /\ Len(branches) = 2
    /\ branches[1].name = "New"

\* The sleeps of the trace.
Sleeps == SelectSeq(trace, LAMBDA e : e.op = "sleep")

BranchListRequests == SelectSeq(trace, LAMBDA e : e = BranchListRequest)

\* C11: a lookup of the poller returns the branch exactly when its answer lists it,
\* and the poller then returns True at once; when that is its k-th lookup
\* (k = attempt + 1 <= max_wait_minutes * 2) the poll was k lookups alternating with
\* k - 1 sleeps, and no sleep and no lookup of the poller follows: the one
\* branch-list GET that may follow is the lookup of main().
C11_PollSuccess ==
    /\ [](scan_completed = "True" =>
            /\ pc \notin {"poll", "sleep"}
            /\ attempt + 1 <= max_wait_minutes * 2
            /\ Len(trace) >= 3 + 2 * attempt + 1
            /\ SubSeq(trace, 1, 3 + 2 * attempt + 1)
                 = ResolutionRequests \o MissedPoll(attempt + 1)
            /\ Len(Sleeps) = attempt
            /\ Len(BranchListRequests) =
                 attempt + 1 + (IF pc = "lookup" THEN 0 ELSE 1))
    /\ [][(pc = "poll" /\ trace' # trace) =>
            /\ Listed(branches', "new") <=> scan_completed' = "True"
            /\ Listed(branches', "new") =>
                 /\ pc' = "lookup"
                 /\ attempt' = attempt
                 /\ trace' = Append(trace, BranchListRequest)]_vars

C11_Witness ==
    /\ scan_completed = "True"
    /\ max_wait_minutes = 2
    /\ attempt = 3
    /\ pc = "exit"
    /\ exit_code = 0

\* C12: a branch-list request of the poll that fails (no response, or an error
\* status) raises nothing: the lookup gets the empty list and finds no branch, as
\* when the branch is absent; the attempt is used up, and the poll goes on with the
\* sleep and the next attempt, or ends with False when that was the last attempt.
C12_FailedListRequest ==
    /\ [][(pc = "poll" /\ trace' # trace /\ last'.raised) =>
            /\ trace' = Append(trace, BranchListRequest)
            /\ branches' = <<>>
            /\ branch' = None
            /\ attempt' = attempt
            /\ IF attempt + 1 < max_wait_minutes * 2
               THEN pc' = "sleep" /\ scan_completed' = "unset" /\ exit_code' = -1
               ELSE pc' = "exit" /\ scan_completed' = "False" /\ exit_code' = 1]_vars
    /\ [][pc = "sleep" => (pc' = "poll" /\ attempt' = attempt + 1)]_vars

C12_Witness ==
    /\ pc = "poll"
    /\ attempt = 2
    /\ last # None
    /\ last.raised
    /\ last.status = 500
    /\ branches = <<>>

\* An answer with a status in 200..299.
Is2xx(status) == status >= 200 /\ status <= 299

\* C13 as stated: set_default_branch returns False without a PATCH when its GET
\* fails, returns False when its PATCH is rejected or fails, returns True only when
\* both were answered with success, and main() exits with code 1 whenever it
\* returned False.
C13_SetDefaultResult ==
    /\ (get_status # -1 /\ (~Is2xx(get_status) \/ branch_data = None)) =>
        /\ success = "False"
        /\ last.method = "GET"
    /\ (last # None /\ last.method = "PATCH" /\ ~Is2xx(last.status)) =>
        success = "False"
    /\ success = "True" =>
        /\ Is2xx(get_status)
        /\ last.method = "PATCH"
        /\ Is2xx(last.status)
    /\ success = "False" => (pc = "exit" /\ exit_code = 1)

\* No request other than the branch-list GET is in the trace twice.
NoOtherRepeat ==
    \A i \in 1..Len(trace) :
        (trace[i].op # "sleep" /\ trace[i] # BranchListRequest) =>
            \A j \in (i + 1)..Len(trace) : trace[j] # trace[i]

\* C14 as stated: no request is issued twice in a run, except the branch-list GET,
\* which only the poll loop repeats: a sleep of the poll lies between any two of them.
C14_AsStated ==
    /\ NoOtherRepeat
    /\ \A i \in 1..(Len(trace) - 1) :
        ~(trace[i] = BranchListRequest /\ trace[i + 1] = BranchListRequest)

\* C14 amended: no request is issued twice in a run, except the branch-list GET,
\* which the poll loop repeats, with a sleep before each repetition, and which
\* main() issues once more for its lookup right after the poll returned True.
C14_NoRetry ==
    /\ NoOtherRepeat
    /\ \A i \in 1..(Len(trace) - 1) :
        (trace[i] = BranchListRequest /\ trace[i + 1] = BranchListRequest) =>
            /\ scan_completed = "True"
            /\ i = 3 + 2 * attempt + 1
    /\ Len(BranchListRequests) <= max_wait_minutes * 2 + 1

C14_Witness ==
    /\ pc = "exit"
    /\ exit_code = 1
    /\ last # None
    /\ last.method = "PATCH"
    /\ last.raised
    /\ attempt = 1
    /\ Len(BranchListRequests) = 3

\* The positions of the PATCH requests in the trace.
Patches == {i \in 1..Len(trace) : trace[i].op = "PATCH"}

\* C15: every request of a run is a GET or a PATCH, at most one is a PATCH, and
\* that PATCH goes to the branch, of the project resolved, that the lookup of
\* main() returned from the list of the project's branches under the name in
\* POLARIS_BRANCH_NAME.
C15_OneUpdate ==
    /\ \A i \in 1..Len(Requests) : Requests[i].op \in {"GET", "PATCH"}
    /\ Cardinality(Patches) <= 1
    /\ \A i \in Patches :
        /\ i = Len(trace)
        /\ project_data # None
        /\ project_data.name = env["POLARIS_PROJECT_NAME"]
        /\ branch # None
        /\ branch.name = env["POLARIS_BRANCH_NAME"]
        /\ \E k \in 1..Len(branches) : branches[k] = branch
        /\ trace[i].endpoint =
             "/api/portfolios/" \o project_data.portfolioId
             \o "/applications/" \o project_data.applicationId
             \o "/projects/" \o project_data.id
             \o "/branches/" \o branch.id
        /\ trace[i].endpoint = ProjectUrl \o "/branches/b1"

C15_Witness ==
    /\ pc = "exit"
    /\ exit_code = 0
    /\ Cardinality(Patches) = 1
    /\ attempt = 2

\* A GET of the url is in the trace.
Asked(url) == \E t \in 1..Len(trace) : trace[t] = GetRequest(url)

\* The positions of the items of the requested project name in a list.
Hits(list) == {k \in 1..Len(list) : list[k].name = "hello-java"}

SearchRequest == pc \in {"portfolios", "applications", "projects"} /\ trace' # trace

\* The request of the step is given up: the search returns None (portfolios), or
\* goes on with the next portfolio (applications) or the next application
\* (projects), up to None after the last.
GivenUp ==
    /\ pc = "portfolios" => (pc' = "returned" /\ project_data' = None)
    /\ pc = "applications" =>
        \/ pc' = "applications" /\ p_idx' = p_idx + 1 /\ p_idx' <= Len(portfolios)
        \/ pc' = "returned" /\ p_idx = Len(portfolios) /\ project_data' = None
    /\ pc = "projects" =>
        \/ /\ pc' = "projects" /\ p_idx' = p_idx
           /\ a_idx' = a_idx + 1 /\ a_idx' <= Len(applications)
        \/ /\ a_idx = Len(applications)
           /\ pc' = "applications" /\ p_idx' = p_idx + 1 /\ p_idx' <= Len(portfolios)
        \/ /\ a_idx = Len(applications) /\ p_idx = Len(portfolios)
           /\ pc' = "returned" /\ project_data' = None

\* Every request that _make_request raises on is given up.
RaisedGivenUp == [][(SearchRequest /\ last'.raised) => GivenUp]_vars

\* C17 as stated: find_project_by_name gives up every request that failed, one
\* answered with a status outside 200..299 included: a failed portfolios request
\* yields None, a failed applications or projects request is skipped and the
\* search goes on with the next portfolio or application.
C17_FailuresSkipped ==
    [][(SearchRequest /\ ~Is2xx(last'.status)) => GivenUp]_vars

\* C18: when the poller returned True and the lookup of main() that follows finds
\* no branch of the name in its own answer, the run exits with code 1 with no
\* branch GET and no PATCH; whether the branch is already the default is decided
\* on the branch of that answer, whatever the poller's lookup had returned.
C18_SeparateObservations ==
    /\ [](( /\ scan_completed = "True"
            /\ pc # "lookup"
            /\ branch = None) =>
            /\ pc = "exit"
            /\ exit_code = 1
            /\ trace[Len(trace)] = BranchListRequest
            /\ OnlyResolutionAndLists)
    /\ [][pc = "lookup" =>
            LET hits == {k \in 1..Len(branches') : branches'[k].name = "new"}
                seen == branches'[CHOOSE k \in hits : \A m \in hits : k <= m]
            IN  /\ trace' = Append(trace, BranchListRequest)
                /\ scan_completed = "True" /\ branch # None
                /\ hits = {} => (branch' = None /\ pc' = "exit" /\ exit_code' = 1)
                /\ hits # {} =>
                     /\ branch' = seen
                     /\ IF MarkedDefault(seen)
                        THEN pc' = "exit" /\ exit_code' = 0
                        ELSE pc' = "branch_get" /\ exit_code' = -1]_vars

C18_Witness ==
    /\ scan_completed = "True"
    /\ pc = "exit"
    /\ exit_code = 1
    /\ branch = None
    /\ last.status = 200
    /\ attempt = 1

\* The positions of the GETs of a single branch in the trace.
BranchGets ==
    {i \in 1..Len(trace) :
        /\ trace[i].op = "GET"
        /\ trace[i] # BranchListRequest
        /\ \A k \in 1..3 : trace[i] # ResolutionRequests[k]}

\* C19: every run of main() in which each request returns and each sleep ends
\* reaches its exit, with code 0 or 1, and has at no point issued more than
\* max_wait_minutes * 2 + 1 branch-list GETs, one GET of the branch and one PATCH.
C19_Termination ==
    /\ <>(pc = "exit" /\ exit_code \in {0, 1})
    /\ [](/\ Len(BranchListRequests) <= max_wait_minutes * 2 + 1
          /\ Cardinality(BranchGets) <= 1
          /\ Cardinality(Patches) <= 1)

C19_Witness ==
    /\ pc = "exit"
    /\ exit_code = 0
    /\ max_wait_minutes = 2
    /\ Len(BranchListRequests) = 5
    /\ Cardinality(BranchGets) = 1
    /\ Cardinality(Patches) = 1

====
